---- MODULE Spec2Model ----
(***************************************************************************)
(* Model of package cleanhtml of scu/cleanpg: the renderability decision   *)
(* (elements.go), the configuration flags and CleanHTML (parse.go) and the *)
(* tree renderer (render.go).                                              *)
(*                                                                         *)
(* Strings that the code only compares (tag names, attribute keys) are TLA *)
(* strings; strings that the code scans rune by rune (text, style) are     *)
(* sequences of one-rune strings.  The output buffer is the sequence of    *)
(* the writes made to it; every write is tagged with the node that caused  *)
(* it so that properties can speak about "the start tag of node i".        *)
(***************************************************************************)
EXTENDS Integers, Sequences, FiniteSets, TLC

\* ---------------------------------------------------------------- bounds
MaxNodes == 3      \* nodes below the document root in an input tree
MaxRenders == 2    \* top-level CleanHTML calls in one run
MaxCalls == 4      \* direct isElementRenderable calls in one run
MaxAttrs == 2      \* source attributes on the element of an attribute case
MaxStr == 3        \* runes in a string given to escape

\* ------------------------------------------------------- elements.go tables

\* strings.ToLower on the tag names that occur in the model
ToLower(s) ==
    CASE s = "H1" -> "h1"
      [] s = "BR" -> "br"
      [] s = "A" -> "a"
      [] s = "BODY" -> "body"
      [] OTHER -> s

voidElements ==
    {"area", "base", "br", "col", "embed", "hr", "img", "input", "keygen",
     "link", "meta", "param", "source", "track", "wbr"}

NoStyle == <<>>

\* the style literals, as runes; a run of runes without CR, NL or TAB is
\* kept as one piece
StyleHtml ==
    <<"\n", "\t", "\t", "margin: auto;", "\n", "\t", "\t", "height: 100%;",
      "\n", "\t", "\t", "display: table;", "\n", "\t", "\t",
      "background: #d6dede;", "\n", "\t", "\t">>
StyleBody ==
    <<"\n", "\t", "\t", "margin: 0 auto;", "\n", "\t", "\t",
      "padding-left: 20px;", "\n", "\t", "\t", "padding-right: 20px;",
      "\n", "\t", "\t", "height: 100%;", "\n", "\t", "\t",
      "font: 115% 'PT Sans', 'Helvetica', sans-serif;", "\n", "\t", "\t",
      "max-width: 800px;", "\n", "\t", "\t", "color: #555753; ", "\n",
      "\t", "\t", "background: #fff; ", "\n", "\t", "\t",
      "display: table-cell;", "\n", "\t", "\t", "vertical-align: middle;",
      "\n", "\t", "\t">>
StyleH1 ==
    <<"\n", "\t", "\t", "font-size: 175%;", "\n", "\t", "\t",
      "margin-top: 40px;", "\n", "\t", "\t">>
StyleH2 ==
    <<"\n", "\t", "\t", "font-size: 145%;", "\n", "\t", "\t",
      "margin-top: 30px;", "\n", "\t", "\t">>
StyleH3 ==
    <<"\n", "\t", "\t", "font-size: 130%;", "\n", "\t", "\t",
      "margin-top: 20px;", "\n", "\t", "\t">>
StylePre ==
    <<"font-family: Menlo, monospace;", "\n", "\t", "\t",
      "font-size: 0.875rem;">>
StyleCode ==
    <<"font-family: Menlo, monospace;", "\n", "\t", "\t",
      "word-spacing: -0.3em;", "\n", "\t", "\t", "font-size: 0.875rem;">>

PlainTags ==
    {"head", "title", "div", "span", "h4", "h5", "h6", "p", "blockquote",
     "b", "em", "i", "br", "caption", "col", "colgroup", "table", "tbody",
     "td", "tfoot", "th", "thead", "tr"}

renderableHTML ==
    [t \in PlainTags \cup {"html", "body", "h1", "h2", "h3", "pre", "code", "a"} |->
        CASE t = "html" -> [attributes |-> <<>>, style |-> StyleHtml]
          [] t = "body" -> [attributes |-> <<>>, style |-> StyleBody]
          [] t = "h1" -> [attributes |-> <<>>, style |-> StyleH1]
          [] t = "h2" -> [attributes |-> <<>>, style |-> StyleH2]
          [] t = "h3" -> [attributes |-> <<>>, style |-> StyleH3]
          [] t = "pre" -> [attributes |-> <<>>, style |-> StylePre]
          [] t = "code" -> [attributes |-> <<>>, style |-> StyleCode]
          [] t = "a" -> [attributes |-> <<"href">>, style |-> NoStyle]
          [] OTHER -> [attributes |-> <<>>, style |-> NoStyle]]

\* renderableHTML[key].style with Go's zero value for a missing key
StyleOf(key) ==
    IF key \in DOMAIN renderableHTML THEN renderableHTML[key].style ELSE NoStyle

\* The configuration a call reads: the three package-level flags.
Config(canon, style, links) ==
    [canon |-> canon, style |-> style, links |-> links]

\* isElementRenderable without the suppression between body and the first h1
isElementRenderable_NoSuppress(node, c, eb, eh) ==
    LET lcaseTag == ToLower(node)
        doRender == lcaseTag \in DOMAIN renderableHTML
    IN  IF lcaseTag = "a" /\ doRender /\ ~c.links
        THEN [r |-> FALSE, eb |-> eb, eh |-> eh]
        ELSE IF c.canon /\ doRender
        THEN [r |-> TRUE, eb |-> eb \/ lcaseTag = "body",
              eh |-> eh \/ lcaseTag = "h1"]
        ELSE [r |-> doRender, eb |-> eb, eh |-> eh]

\* isElementRenderable with doRender initialised to true
isElementRenderable_NoLookup(node, c, eb, eh) ==
    LET lcaseTag == ToLower(node)
        doRender == TRUE
    IN  IF lcaseTag = "a" /\ doRender /\ ~c.links
        THEN [r |-> FALSE, eb |-> eb, eh |-> eh]
        ELSE IF c.canon /\ doRender
        THEN LET eb1 == eb \/ lcaseTag = "body"
                 r1 == ~(eb1 /\ ~eh /\ lcaseTag # "body")
             IN  IF lcaseTag = "h1"
                 THEN [r |-> TRUE, eb |-> eb1, eh |-> TRUE]
                 ELSE [r |-> r1, eb |-> eb1, eh |-> eh]
        ELSE [r |-> doRender, eb |-> eb, eh |-> eh]

\* isElementRenderable without the link rule
isElementRenderable_NoLinkRule(node, c, eb, eh) ==
    LET lcaseTag == ToLower(node)
        doRender == lcaseTag \in DOMAIN renderableHTML
    IN  IF c.canon /\ doRender
        THEN LET eb1 == eb \/ lcaseTag = "body"
                 r1 == ~(eb1 /\ ~eh /\ lcaseTag # "body")
             IN  IF lcaseTag = "h1"
                 THEN [r |-> TRUE, eb |-> eb1, eh |-> TRUE]
                 ELSE [r |-> r1, eb |-> eb1, eh |-> eh]
        ELSE [r |-> doRender, eb |-> eb, eh |-> eh]

\* isElementRenderable whose canonical-mode block does not test the mode
isElementRenderable_AlwaysCanon(node, c, eb, eh) ==
    LET lcaseTag == ToLower(node)
        doRender == lcaseTag \in DOMAIN renderableHTML
    IN  IF lcaseTag = "a" /\ doRender /\ ~c.links
        THEN [r |-> FALSE, eb |-> eb, eh |-> eh]
        ELSE IF doRender
        THEN LET eb1 == eb \/ lcaseTag = "body"
                 r1 == ~(eb1 /\ ~eh /\ lcaseTag # "body")
             IN  IF lcaseTag = "h1"
                 THEN [r |-> TRUE, eb |-> eb1, eh |-> TRUE]
                 ELSE [r |-> r1, eb |-> eb1, eh |-> eh]
        ELSE [r |-> doRender, eb |-> eb, eh |-> eh]

\* isElementRenderable whose h1 rule sets the flag but not doRender
isElementRenderable_H1NotForced(node, c, eb, eh) ==
    LET lcaseTag == ToLower(node)
        doRender == lcaseTag \in DOMAIN renderableHTML
    IN  IF lcaseTag = "a" /\ doRender /\ ~c.links
        THEN [r |-> FALSE, eb |-> eb, eh |-> eh]
        ELSE IF c.canon /\ doRender
        THEN LET eb1 == eb \/ lcaseTag = "body"
                 r1 == ~(eb1 /\ ~eh /\ lcaseTag # "body")
             IN  [r |-> r1, eb |-> eb1, eh |-> eh \/ lcaseTag = "h1"]
        ELSE [r |-> doRender, eb |-> eb, eh |-> eh]

\* isElementRenderable(node): the result r and the two package-level
\* traversal flags as the call leaves them.
isElementRenderable(node, c, eb, eh) ==
    LET lcaseTag == ToLower(node)
        doRender == lcaseTag \in DOMAIN renderableHTML
    IN  IF lcaseTag = "a" /\ doRender /\ ~c.links
        THEN [r |-> FALSE, eb |-> eb, eh |-> eh]
        ELSE IF c.canon /\ doRender
        THEN LET eb1 == eb \/ lcaseTag = "body"
                 r1 == ~(eb1 /\ ~eh /\ lcaseTag # "body")
             IN  IF lcaseTag = "h1"
                 THEN [r |-> TRUE, eb |-> eb1, eh |-> TRUE]
                 ELSE [r |-> r1, eb |-> eb1, eh |-> eh]
        ELSE [r |-> doRender, eb |-> eb, eh |-> eh]

InSeq(x, s) == \E i \in 1..Len(s) : s[i] = x

\* isElementAttributeRenderable that accepts every attribute of a policy tag
isElementAttributeRenderable_AnyKey(node, attr) ==
    ToLower(node) \in DOMAIN renderableHTML

isElementAttributeRenderable(node, attr) ==
    LET lcNode == ToLower(node)
    IN  IF lcNode \notin DOMAIN renderableHTML
        THEN FALSE
        ELSE InSeq(attr, renderableHTML[lcNode].attributes)

\* --------------------------------------------------------- render.go: text

escapedChars == {"&", "'", "<", ">", "\"", "\r"}

\* strings.IndexAny(s, escapedChars), 1-based; 0 when there is none
IndexAny(s) ==
    IF \E i \in 1..Len(s) : s[i] \in escapedChars
    THEN CHOOSE i \in 1..Len(s) :
            /\ s[i] \in escapedChars
            /\ \A j \in 1..(i - 1) : s[j] \notin escapedChars
    ELSE 0

\* the replacement table with &apos; for the apostrophe
Esc_Apos(ch) ==
    CASE ch = "&" -> <<"&", "a", "m", "p", ";">>
      [] ch = "'" -> <<"&", "a", "p", "o", "s", ";">>
      [] ch = "<" -> <<"&", "l", "t", ";">>
      [] ch = ">" -> <<"&", "g", "t", ";">>
      [] ch = "\"" -> <<"&", "#", "3", "4", ";">>
      [] ch = "\r" -> <<"&", "#", "1", "3", ";">>

Esc(ch) ==
    CASE ch = "&" -> <<"&", "a", "m", "p", ";">>
      [] ch = "'" -> <<"&", "#", "3", "9", ";">>
      [] ch = "<" -> <<"&", "l", "t", ";">>
      [] ch = ">" -> <<"&", "g", "t", ";">>
      [] ch = "\"" -> <<"&", "#", "3", "4", ";">>
      [] ch = "\r" -> <<"&", "#", "1", "3", ";">>

RECURSIVE escape(_)
\* the runes escape writes for s
escape(s) ==
    LET i == IndexAny(s)
    IN  IF i = 0
        THEN s
        ELSE SubSeq(s, 1, i - 1) \o Esc(s[i]) \o escape(SubSeq(s, i + 1, Len(s)))

\* unicode.IsSpace on the runes of the model
SpaceRunes == {" ", "\t", "\n", "\r", "\f"}

isTextWhitespace(text) == \A i \in 1..Len(text) : text[i] \in SpaceRunes

cleanStyle(text) ==
    SelectSeq(text, LAMBDA v : v # "\r" /\ v # "\n" /\ v # "\t")

\* ------------------------------------------------------ the parsed document
(* A document is the sequence of the nodes below the DocumentNode root, in  *)
(* document (pre-)order.  parent is the index of the parent node, 0 for the *)
(* root.  data carries n.Data of an element (the tag name); n.Data of a     *)
(* text or raw node, which the code scans rune by rune, is carried by text. *)
Node(type, data, text, attr) ==
    [type |-> type, data |-> data, text |-> text, attr |-> attr]

\* the children from n.LastChild along PrevSibling
Children_Reversed(d, p) ==
    LET kids == SelectSeq([i \in 1..Len(d) |-> i], LAMBDA i : d[i].parent = p)
    IN  [i \in 1..Len(kids) |-> kids[Len(kids) + 1 - i]]

Children(d, p) ==
    SelectSeq([i \in 1..Len(d) |-> i], LAMBDA i : d[i].parent = p)

\* n.FirstChild != nil
HasChild(d, p) == \E i \in 1..Len(d) : d[i].parent = p

\* ------------------------------------------------------ render.go: writes
\* one write to the buffer: its kind, the node it is made for, and what is
\* written (s: a name, t: runes)
Tok(k, n, s, t) == [k |-> k, n |-> n, s |-> s, t |-> t]

RECURSIVE attrWrites(_, _, _)
\* the loop of renderAttributes over n.Attr[i..]
attrWrites(d, n, i) ==
    IF i > Len(d[n].attr)
    THEN <<>>
    ELSE LET a == d[n].attr[i]
         IN  (IF isElementAttributeRenderable(d[n].data, a.key)
              THEN <<Tok("attr", n, a.key, <<a.ns, a.val>>)>>
              ELSE <<>>) \o attrWrites(d, n, i + 1)

renderAttributes(d, n, out) ==
    out \o attrWrites(d, n, 1)

\* renderStartTag without the n.FirstChild check of a void element
renderStartTag_NoChildCheck(d, c, n, out) ==
    LET data == d[n].data
        o1 == out \o <<Tok("nl", n, "", <<>>), Tok("lt", n, "", <<>>),
                       Tok("name", n, data, <<>>)>>
        o2 == IF c.style /\ StyleOf(data) # NoStyle
              THEN Append(o1, Tok("style", n, "",
                        cleanStyle(<<" style=\"">> \o StyleOf(data) \o <<"\"">>)))
              ELSE o1
        o3 == renderAttributes(d, n, o2)
    IN  IF data \in voidElements
        THEN [out |-> Append(o3, Tok("selfclose", n, "", <<>>)), err |-> ""]
        ELSE [out |-> Append(o3, Tok("gt", n, "", <<>>)), err |-> ""]

renderStartTag(d, c, n, out) ==
    LET data == d[n].data
        o1 == out \o <<Tok("nl", n, "", <<>>), Tok("lt", n, "", <<>>),
                       Tok("name", n, data, <<>>)>>
        o2 == IF c.style /\ StyleOf(data) # NoStyle
              THEN Append(o1, Tok("style", n, "",
                        cleanStyle(<<" style=\"">> \o StyleOf(data) \o <<"\"">>)))
              ELSE o1
        o3 == renderAttributes(d, n, o2)
    IN  IF data \in voidElements
        THEN IF HasChild(d, n)
             THEN [out |-> o3, err |-> "void"]
             ELSE [out |-> Append(o3, Tok("selfclose", n, "", <<>>)), err |-> ""]
        ELSE [out |-> Append(o3, Tok("gt", n, "", <<>>)), err |-> ""]

\* renderCloseTag that writes nothing for a void element
renderCloseTag_SkipVoid(d, n, out) ==
    IF d[n].data \in voidElements
    THEN out
    ELSE Append(out, Tok("close", n, d[n].data, <<>>))

renderCloseTag(d, n, out) == Append(out, Tok("close", n, d[n].data, <<>>))

(* render(w, n).  The accumulator a carries the buffer (out), the two       *)
(* package-level traversal flags (eb, eh), the error being returned (err,   *)
(* "" for nil) and the nodes render was called on, in call order (vis).     *)
RECURSIVE render(_, _, _, _), renderChildren(_, _, _, _, _),
          renderChildren_NoAbort(_, _, _, _, _)

\* the child loops without the return on a child's error
renderChildren_NoAbort(d, c, p, kids, a) ==
    IF kids = <<>>
    THEN a
    ELSE LET ch == Head(kids)
             recheck == p # 0 /\ d[ch].type = "TextNode"
             chk == IF recheck
                    THEN isElementRenderable(d[p].data, c, a.eb, a.eh)
                    ELSE [r |-> TRUE, eb |-> a.eb, eh |-> a.eh]
             a1 == [a EXCEPT !.eb = chk.eb, !.eh = chk.eh]
         IN  IF ~chk.r
             THEN renderChildren_NoAbort(d, c, p, Tail(kids), a1)
             ELSE renderChildren_NoAbort(d, c, p, Tail(kids), render(d, c, ch, a1))

\* the two child loops of render: of a DocumentNode (elem = FALSE) and of an
\* ElementNode (elem = TRUE, with the re-check of the parent for a TextNode)
renderChildren(d, c, p, kids, a) ==
    IF kids = <<>>
    THEN a
    ELSE LET ch == Head(kids)
             recheck == p # 0 /\ d[ch].type = "TextNode"
             chk == IF recheck
                    THEN isElementRenderable(d[p].data, c, a.eb, a.eh)
                    ELSE [r |-> TRUE, eb |-> a.eb, eh |-> a.eh]
             a1 == [a EXCEPT !.eb = chk.eb, !.eh = chk.eh]
         IN  IF ~chk.r
             THEN renderChildren(d, c, p, Tail(kids), a1)
             ELSE LET a2 == render(d, c, ch, a1)
                  IN  IF a2.err # ""
                      THEN a2
                      ELSE renderChildren(d, c, p, Tail(kids), a2)

render(d, c, n, a) ==
    LET a0 == [a EXCEPT !.vis = Append(@, n)]
        type == IF n = 0 THEN "DocumentNode" ELSE d[n].type
    IN  CASE type = "ErrorNode" -> [a0 EXCEPT !.err = "errornode"]
          [] type = "TextNode" ->
                IF ~isTextWhitespace(d[n].text)
                THEN [a0 EXCEPT !.out = Append(@, Tok("text", n, "", escape(d[n].text)))]
                ELSE a0
          [] type = "DocumentNode" -> renderChildren(d, c, n, Children(d, n), a0)
          [] type = "CommentNode" -> a0
          [] type = "DoctypeNode" ->
                [a0 EXCEPT !.out = Append(@, Tok("doctype", n, "", <<>>))]
          [] type = "RawNode" ->
                [a0 EXCEPT !.out = Append(@, Tok("raw", n, "", d[n].text))]
          [] type = "ElementNode" ->
                LET ier == isElementRenderable(d[n].data, c, a0.eb, a0.eh)
                    st == IF ier.r
                          THEN renderStartTag(d, c, n, a0.out)
                          ELSE [out |-> a0.out, err |-> ""]
                    a1 == [a0 EXCEPT !.eb = ier.eb, !.eh = ier.eh,
                                     !.out = st.out, !.err = st.err]
                IN  IF st.err # ""
                    THEN a1
                    ELSE LET a2 == renderChildren(d, c, n, Children(d, n), a1)
                         IN  IF a2.err # ""
                             THEN a2
                             ELSE IF ier.r
                                  THEN [a2 EXCEPT !.out = renderCloseTag(d, n, @)]
                                  ELSE a2
          [] OTHER -> [a0 EXCEPT !.err = "unknown"]

\* ------------------------------------------------------- the input documents
El(tag) == Node("ElementNode", tag, <<>>, <<>>)
ElA(tag, attr) == Node("ElementNode", tag, <<>>, attr)
Text(runes) == Node("TextNode", "", runes, <<>>)

TextData == <<"x", "&">>
WsData == <<" ", "\n">>

ErrorKind == Node("ErrorNode", "parse", <<>>, <<>>)

\* body, h1: the tags of canonical mode; div: a plain policy tag; br: a void
\* tag of the policy table
TreeKinds ==
    {El(t) : t \in {"body", "div", "h1", "br"}} \cup {Text(TextData), ErrorKind}

\* what is put inside a <body> element
BodyKinds == {El(t) : t \in {"div", "h1", "br"}} \cup {Text(TextData)}

\* a: the link tag; img: a void tag outside the policy table; whitespace
\* text; comment, doctype, raw and unknown nodes
AllKinds ==
    TreeKinds \cup
    {El("a"), El("img"), Text(WsData), Node("CommentNode", "c", <<>>, <<>>),
     Node("DoctypeNode", "html4", <<>>, <<>>),
     Node("RawNode", "", <<"<", "r", ">">>, <<>>),
     Node("NotationNode", "", <<>>, <<>>)}

At(k, p) ==
    [type |-> k.type, data |-> k.data, text |-> k.text, attr |-> k.attr,
     parent |-> p]

RECURSIVE PathTo(_, _)
\* node i and its ancestors, the root included
PathTo(d, i) == IF i = 0 THEN {0} ELSE {i} \cup PathTo(d, d[i].parent)

\* where the next node in document order can be attached: the root, or an
\* element on the path to the last node
OpenParents(d) ==
    {p \in PathTo(d, Len(d)) : p = 0 \/ d[p].type = "ElementNode"}

Extend(d, kinds) == {Append(d, At(k, p)) : k \in kinds, p \in OpenParents(d)}

RECURSIVE Forests(_, _)
\* all trees with at most n nodes below the root
Forests(n, kinds) ==
    IF n = 0
    THEN {<<>>}
    ELSE LET S == Forests(n - 1, kinds)
         IN  S \cup UNION {Extend(d, kinds) : d \in {e \in S : Len(e) = n - 1}}

\* a tree as the content of a <body> element
InBody(d) ==
    <<At(El("body"), 0)>> \o [i \in 1..Len(d) |-> At(d[i], d[i].parent + 1)]

TreeDocs == Forests(MaxNodes, TreeKinds)
BodyDocs == {InBody(d) : d \in Forests(MaxNodes, BodyKinds)}
SmallDocs == Forests(MaxNodes - 1, AllKinds)

\* one element with source attributes
AttrPool ==
    {[ns |-> "", key |-> "href", val |-> "x"],
     [ns |-> "", key |-> "onclick", val |-> "y"],
     [ns |-> "", key |-> "HREF", val |-> "z"],
     [ns |-> "xlink", key |-> "href", val |-> "w"]}

AttrLists == UNION {[1..n -> AttrPool] : n \in 0..MaxAttrs}

AttrTags == {"a", "A", "div", "br"}

AttrDocs ==
    {<<At(ElA(t, al), 0)>> : t \in AttrTags, al \in AttrLists}
        \cup {<<At(ElA(t, al), 0), At(Text(TextData), 1)>> :
                    t \in AttrTags, al \in AttrLists}

\* elements whose tag name is not in lower case, alone and with a text child
CaseTags == {"H1", "BR"}

CaseDocs ==
    {<<At(El(t), 0)>> : t \in CaseTags}
        \cup {<<At(El(t), 0), At(Text(TextData), 1)>> : t \in CaseTags}

Docs == TreeDocs \cup BodyDocs \cup SmallDocs \cup AttrDocs \cup CaseDocs

\* -------------------------------------------------------------------- state
VARIABLES
    renderCanonicalMode,        \* parse.go
    renderStyle,                \* parse.go
    renderLinks,                \* parse.go
    encounteredBodyElement,     \* elements.go
    encounteredFirstH1Element,  \* elements.go
    pc,          \* "config": flags are being set; "loaded": ReadHTML returned
    data,        \* the bytes ReadHTML returned, as the tree html.Parse builds
    buf,         \* the string the last CleanHTML returned, as its writes
    prevBuf,     \* the string the CleanHTML before it returned
    retErr,      \* the error the last CleanHTML returned ("" for nil)
    renderErr,   \* the error render returned inside the last CleanHTML
    vis,         \* the nodes render was called on in the last CleanHTML
    nRenders,    \* CleanHTML calls made
    calls        \* the isElementRenderable calls made directly, with results

vars ==
    <<renderCanonicalMode, renderStyle, renderLinks, encounteredBodyElement,
      encounteredFirstH1Element, pc, data, buf, prevBuf, retErr, renderErr,
      vis, nRenders, calls>>

flags == <<renderCanonicalMode, renderStyle, renderLinks>>
seen == <<encounteredBodyElement, encounteredFirstH1Element>>
lastRender == <<buf, prevBuf, retErr, renderErr, vis, nRenders>>

cfg == Config(renderCanonicalMode, renderStyle, renderLinks)

Init ==
    /\ renderCanonicalMode = FALSE
    /\ renderStyle = TRUE
    /\ renderLinks = TRUE
    /\ encounteredBodyElement = FALSE
    /\ encounteredFirstH1Element = FALSE
    /\ pc = "config"
    /\ data = <<>>
    /\ buf = <<>>
    /\ prevBuf = <<>>
    /\ retErr = ""
    /\ renderErr = ""
    /\ vis = <<>>
    /\ nRenders = 0
    /\ calls = <<>>

\* ------------------------------------------------------------------ actions
\* In the cleanpg utility the Set* functions are called while the command
\* line is processed, before the document is read and before any
\* isElementRenderable call; a client of the package ("library") calls the
\* functions of the package in any order.
ConfigurationOpen == (pc = "config" /\ calls = <<>>) \/ pc = "library"

SetPostH1Render(flag) ==
    /\ ConfigurationOpen
    /\ renderCanonicalMode' = flag
    /\ UNCHANGED <<renderStyle, renderLinks, seen, pc, data, lastRender, calls>>

SetStyleRender(flag) ==
    /\ ConfigurationOpen
    /\ renderStyle' = flag
    /\ UNCHANGED <<renderCanonicalMode, renderLinks, seen, pc, data, lastRender, calls>>

SetLinksRender(flag) ==
    /\ ConfigurationOpen
    /\ renderLinks' = flag
    /\ UNCHANGED <<renderCanonicalMode, renderStyle, seen, pc, data, lastRender, calls>>

ReadHTML ==
    /\ pc = "config"
    /\ \E d \in Docs : data' = d
    /\ pc' = "loaded"
    /\ UNCHANGED <<flags, seen, lastRender, calls>>

\* CleanHTML(data): html.Parse on a bytes.Reader does not fail; render
\* starts from the package-level flags as they are; its error is dropped.
CleanHTML ==
    /\ pc \in {"loaded", "library"}
    /\ nRenders < MaxRenders
    /\ LET res == render(data, cfg, 0,
                     [out |-> <<>>, eb |-> encounteredBodyElement,
                      eh |-> encounteredFirstH1Element, err |-> "", vis |-> <<>>])
       IN  /\ buf' = res.out
           /\ prevBuf' = buf
           /\ retErr' = ""
           /\ renderErr' = res.err
           /\ vis' = res.vis
           /\ encounteredBodyElement' = res.eb
           /\ encounteredFirstH1Element' = res.eh
    /\ nRenders' = nRenders + 1
    /\ UNCHANGED <<flags, pc, data, calls>>

Next ==
    \/ \E flag \in BOOLEAN : SetPostH1Render(flag)
    \/ \E flag \in BOOLEAN : SetStyleRender(flag)
    \/ \E flag \in BOOLEAN : SetLinksRender(flag)
    \/ ReadHTML
    \/ CleanHTML

Spec == Init /\ [][Next]_vars

\* isElementRenderable called directly, as a unit
CallTags == {"body", "h1", "div", "p", "a", "img", "script", "H1"}

Call(tag) ==
    /\ Len(calls) < MaxCalls
    /\ LET res == isElementRenderable(tag, cfg, encounteredBodyElement,
                                      encounteredFirstH1Element)
       IN  /\ encounteredBodyElement' = res.eb
           /\ encounteredFirstH1Element' = res.eh
           /\ calls' = Append(calls, [tag |-> tag, r |-> res.r, eb |-> res.eb,
                                      eh |-> res.eh, eb0 |-> encounteredBodyElement,
                                      eh0 |-> encounteredFirstH1Element])
    /\ UNCHANGED <<flags, pc, data, lastRender>>

NextCalls ==
    \/ \E flag \in BOOLEAN : SetPostH1Render(flag)
    \/ \E flag \in BOOLEAN : SetStyleRender(flag)
    \/ \E flag \in BOOLEAN : SetLinksRender(flag)
    \/ \E tag \in CallTags : Call(tag)

SpecCalls == Init /\ [][NextCalls]_vars

\* --------------------------------------------------------------- properties
PolicyTags == DOMAIN renderableHTML

\* call i comes after a call on tag t
After(i, t) == \E j \in 1..(i - 1) : calls[j].tag = t

C7_UnknownTagFrame ==
    \A i \in 1..Len(calls) :
        ToLower(calls[i].tag) \notin PolicyTags =>
            /\ ~calls[i].r
            /\ calls[i].eb = calls[i].eb0
            /\ calls[i].eh = calls[i].eh0

\* an unknown tag asked in canonical mode between body and the first h1,
\* and another asked before body
C7_Witness ==
    /\ renderCanonicalMode
    /\ Len(calls) = 3
    /\ <<calls[1].tag, calls[2].tag, calls[3].tag>> = <<"script", "body", "img">>
    /\ ~calls[1].r /\ ~calls[3].r
    /\ calls[3].eb0 /\ calls[3].eb /\ ~calls[3].eh

\* ------------------------------------------- properties of a CleanHTML call
Elements == {n \in 1..Len(data) : data[n].type = "ElementNode"}

\* the non-whitespace text nodes
Texts ==
    {n \in 1..Len(data) :
        data[n].type = "TextNode" /\ ~isTextWhitespace(data[n].text)}

HasTok(k, n) == \E i \in 1..Len(buf) : buf[i].k = k /\ buf[i].n = n

\* "\n<tag" of node n was written
StartTagWritten(n) == HasTok("name", n)

\* the start tag of node n was completed with ">" or "/>"
StartTagClosed(n) == HasTok("gt", n) \/ HasTok("selfclose", n)

CloseTagWritten(n) == HasTok("close", n)

TextWritten(n) == HasTok("text", n)

Visited(n) == \E i \in 1..Len(vis) : vis[i] = n

\* the writes made for node n, in order
ToksOf(n) == SelectSeq(buf, LAMBDA t : t.n = n)

Kinds(toks) == [i \in 1..Len(toks) |-> toks[i].k]

\* C2: the traversal flags are reset at the start of every top-level
\* render: two consecutive CleanHTML calls on the same document with the
\* same configuration return the same output.
C2_RepeatIdentical == nRenders >= 2 => buf = prevBuf

\* C3: in a render that returns without error, the close tag of an element
\* is written if and only if its start tag was written.
C3_CloseIffStart ==
    (nRenders > 0 /\ renderErr = "") =>
        \A n \in Elements :
            /\ CloseTagWritten(n) <=> StartTagWritten(n)
            /\ StartTagWritten(n) <=> StartTagClosed(n)

\* a render without error that wrote the tags of one element and skipped
\* those of another, and one that wrote the tags of a void element
C3_Witness ==
    /\ nRenders > 0 /\ renderErr = ""
    /\ \E n, m \in Elements :
          /\ StartTagWritten(n) /\ CloseTagWritten(n)
          /\ ~StartTagWritten(m) /\ ~CloseTagWritten(m)
    /\ \E n \in Elements : data[n].data = "br" /\ StartTagWritten(n)

\* C4: a rendered void element without children is written as a newline
\* and <tag .../> and nothing else; a close tag is written only for rendered
\* elements that are not void.
C4_VoidSelfCloses ==
    nRenders > 0 =>
        \A n \in Elements :
            /\ (/\ StartTagWritten(n)
                /\ data[n].data \in voidElements
                /\ ~HasChild(data, n))
               => /\ Kinds(ToksOf(n))[Len(ToksOf(n))] = "selfclose"
                  /\ ~CloseTagWritten(n)
            /\ CloseTagWritten(n) =>
                    (StartTagWritten(n) /\ data[n].data \notin voidElements)

\* C5: when render fails, CleanHTML returns a non-nil error.
C5_FailureReported == (nRenders > 0 /\ renderErr # "") => retErr # ""

IsLink(n) == ToLower(data[n].data) = "a"

ChildrenOf(n) == {c \in 1..Len(data) : data[c].parent = n}

\* C8 as stated: with links disabled an <a> element writes no start or
\* close tag, but its direct text children are still written.
C8_LinkTextKept ==
    (nRenders > 0 /\ ~renderLinks /\ renderErr = "") =>
        \A n \in Elements :
            IsLink(n) =>
                /\ ~StartTagWritten(n) /\ ~CloseTagWritten(n)
                /\ \A c \in ChildrenOf(n) \cap Texts : TextWritten(c)

\* C8 amended: with links disabled an <a> element writes nothing, and its
\* direct text children are skipped as well: render is not called on them
\* and nothing is written for them; its other children are still visited.
C8_LinkTextDropped ==
    (nRenders > 0 /\ ~renderLinks) =>
        \A n \in Elements :
            IsLink(n) =>
                /\ ToksOf(n) = <<>>
                /\ \A c \in ChildrenOf(n) :
                      IF data[c].type = "TextNode"
                      THEN ~Visited(c) /\ ToksOf(c) = <<>>
                      ELSE renderErr = "" => Visited(c)

\* <a href="x">text</a> rendered with links disabled
C8_Witness ==
    /\ nRenders > 0 /\ ~renderLinks /\ renderErr = ""
    /\ Len(data) = 2
    /\ data[1].data = "a"
    /\ data[1].attr = <<[ns |-> "", key |-> "href", val |-> "x"]>>
    /\ 2 \in Texts /\ data[2].parent = 1
    /\ Visited(1)
    /\ buf = <<>>

\* the source attributes of n that the policy entry of its tag allows
AllowedAttrs(n) ==
    LET lc == ToLower(data[n].data)
        allowed == IF lc \in PolicyTags
                   THEN {renderableHTML[lc].attributes[i] :
                            i \in 1..Len(renderableHTML[lc].attributes)}
                   ELSE {}
    IN  SelectSeq(data[n].attr, LAMBDA a : a.key \in allowed)

\* the attributes written for n
WrittenAttrs(n) ==
    LET toks == SelectSeq(buf, LAMBDA t : t.n = n /\ t.k = "attr")
    IN  [i \in 1..Len(toks) |->
            [ns |-> toks[i].t[1], key |-> toks[i].s, val |-> toks[i].t[2]]]

\* C9: the attributes written in the start tag of a rendered element are
\* exactly the source attributes whose key is in the allowed list of the
\* element's policy entry (exact case), in source order; an attribute in no
\* allowed list, such as onclick, is never written.
C9_AttributesFiltered ==
    nRenders > 0 =>
        /\ \A n \in Elements :
              WrittenAttrs(n) = IF StartTagWritten(n) THEN AllowedAttrs(n) ELSE <<>>
        /\ \A i \in 1..Len(buf) : buf[i].k = "attr" => buf[i].s = "href"

\* <a href="x" onclick="y"> rendered with href only
C9_Witness ==
    /\ nRenders > 0
    /\ Len(data) >= 1
    /\ data[1].data = "a"
    /\ data[1].attr = <<[ns |-> "", key |-> "href", val |-> "x"],
                        [ns |-> "", key |-> "onclick", val |-> "y"]>>
    /\ StartTagWritten(1)
    /\ WrittenAttrs(1) = <<[ns |-> "", key |-> "href", val |-> "x"]>>

\* C10: in a render from fresh flags that returns without error, a
\* non-whitespace text child of an element is written if and only if the
\* start tag of that element was written.
C10_TextIffParentRendered ==
    (nRenders = 1 /\ renderErr = "") =>
        \A c \in Texts :
            data[c].parent # 0 =>
                (TextWritten(c) <=> StartTagWritten(data[c].parent))

EscRunes == {"a", ";", "\n", "&", "'", "<", ">", "\"", "\r"}

EscStrings == UNION {[1..n -> EscRunes] : n \in 0..MaxStr}

\* a text node holding the string escape is called on
InitEscape ==
    /\ renderCanonicalMode = FALSE
    /\ renderStyle = TRUE
    /\ renderLinks = TRUE
    /\ encounteredBodyElement = FALSE
    /\ encounteredFirstH1Element = FALSE
    /\ pc = "escape"
    /\ \E s \in EscStrings : data = <<At(Text(s), 0)>>
    /\ buf = <<>>
    /\ prevBuf = <<>>
    /\ retErr = ""
    /\ renderErr = ""
    /\ vis = <<>>
    /\ nRenders = 0
    /\ calls = <<>>

\* escape(w, n.Data) on an empty buffer
EscapeCall ==
    /\ pc = "escape"
    /\ buf' = <<Tok("text", 1, "", escape(data[1].text))>>
    /\ pc' = "escaped"
    /\ UNCHANGED <<flags, seen, data, prevBuf, retErr, renderErr, vis,
                   nRenders, calls>>

NextEscape == EscapeCall

SpecEscape == InitEscape /\ [][NextEscape]_vars

\* what the claim says is written for one rune
Replacement(ch) ==
    CASE ch = "&" -> <<"&", "a", "m", "p", ";">>
      [] ch = "'" -> <<"&", "#", "3", "9", ";">>
      [] ch = "<" -> <<"&", "l", "t", ";">>
      [] ch = ">" -> <<"&", "g", "t", ";">>
      [] ch = "\"" -> <<"&", "#", "3", "4", ";">>
      [] ch = "\r" -> <<"&", "#", "1", "3", ";">>
      [] OTHER -> <<ch>>

RECURSIVE OnePass(_)
OnePass(s) ==
    IF s = <<>> THEN <<>> ELSE Replacement(Head(s)) \o OnePass(Tail(s))

\* C12: escape writes the string obtained by one left-to-right pass that
\* replaces & ' < > " and carriage return by their entities and copies every
\* other rune unchanged and in order; the runes of a replacement are not
\* scanned again.
C12_EscapeOnePass ==
    pc = "escaped" => buf = <<Tok("text", 1, "", OnePass(data[1].text))>>

\* & a CR: the & of &amp; and of &#13; is not escaped again
C12_Witness ==
    /\ pc = "escaped"
    /\ data[1].text = <<"&", "a", "\r">>
    /\ buf[1].t = <<"&", "a", "m", "p", ";", "a", "&", "#", "1", "3", ";">>

\* ---------------------------------------------------------- style injection
RECURSIVE Stripped(_)
\* a style text without its carriage returns, newlines and tabs
Stripped(st) ==
    IF st = <<>>
    THEN <<>>
    ELSE (IF Head(st) \in {"\r", "\n", "\t"} THEN <<>> ELSE <<Head(st)>>)
            \o Stripped(Tail(st))

LastVisited == vis[Len(vis)]

\* the error render returns when it fails at node f itself
FailureAt(f) ==
    IF f = 0
    THEN ""
    ELSE CASE data[f].type = "ErrorNode" -> "errornode"
           [] data[f].type = "ElementNode" ->
                IF data[f].data \in voidElements /\ HasChild(data, f)
                   /\ StartTagWritten(f)
                THEN "void"
                ELSE ""
           [] data[f].type \in {"TextNode", "CommentNode", "DoctypeNode",
                                "RawNode"} -> ""
           [] OTHER -> "unknown"

\* C14: once render of a node fails, the traversal aborts: the error reaches
\* the caller of the top-level render unchanged, no later sibling or
\* descendant is visited, and nothing is written after the failure (no text,
\* no start tag, no close tag of an enclosing element).
C14_AbortOnFailure ==
    (nRenders > 0 /\ renderErr # "") =>
        LET f == LastVisited
        IN  /\ renderErr = FailureAt(f)
            /\ \A n \in 1..Len(data) : n > f => (~Visited(n) /\ ToksOf(n) = <<>>)
            /\ \A n \in PathTo(data, f) \ {0} : ~CloseTagWritten(n)
            /\ \A i, j \in 1..Len(buf) : (i < j /\ buf[i].n = f) => buf[j].n = f
            /\ \A i \in 1..(Len(vis) - 1) : FailureAt(vis[i]) = ""

\* an error node inside a rendered element that has a later sibling
C14_Witness ==
    /\ nRenders > 0
    /\ renderErr = "errornode"
    /\ Len(data) = 3
    /\ data[1].data = "div" /\ StartTagWritten(1) /\ ~CloseTagWritten(1)
    /\ data[2].type = "ErrorNode" /\ data[2].parent = 1
    /\ 3 \in Texts /\ data[3].parent = 0
    /\ vis = <<0, 1, 2>>

\* ------------------------------------------------------------ output order
\* node n and its descendants
Subtree(n) == {m \in 1..Len(data) : n \in PathTo(data, m)}

\* the writes i < j are in document order, a close tag coming after all
\* writes of the subtree of its element and before those of later nodes
InOrder(i, j) ==
    LET ni == buf[i].n
        nj == buf[j].n
        ci == buf[i].k = "close"
        cj == buf[j].k = "close"
    IN  CASE ~ci /\ ~cj -> ni <= nj
          [] ci /\ ~cj -> nj \notin Subtree(ni)
          [] ~ci /\ cj -> ni < nj \/ ni \in Subtree(nj)
          [] OTHER -> ni # nj /\ nj \notin Subtree(ni)

\* C15: in a render without error the children of an element are visited in
\* source order whether or not the element itself rendered: render is called
\* on the nodes in document order and on every node that is not a text node;
\* outside canonical mode an element of the policy table (other than a link
\* with links disabled) writes its start and close tag whatever its
\* ancestors did; the writes appear in document order with every close tag
\* after all writes of the subtree of its element.
C15_OrderAndNesting ==
    (nRenders > 0 /\ renderErr = "") =>
        /\ \A i, j \in 1..Len(vis) : i < j => vis[i] < vis[j]
        /\ \A n \in 1..Len(data) : data[n].type # "TextNode" => Visited(n)
        /\ \A n \in Elements :
              /\ StartTagWritten(n) <=> CloseTagWritten(n)
              /\ ~renderCanonicalMode =>
                    (StartTagWritten(n) <=>
                        (/\ ToLower(data[n].data) \in PolicyTags
                         /\ (ToLower(data[n].data) # "a" \/ renderLinks)))
        /\ \A i, j \in 1..Len(buf) : i < j => InOrder(i, j)

\* canonical mode, <body><div><h1>text</h1></div></body>: the div is not
\* rendered, the h1 inside it is, with its text and its close tag
C15_Witness ==
    /\ nRenders > 0 /\ renderErr = ""
    /\ Len(data) = 4
    /\ <<data[1].data, data[2].data, data[3].data>> = <<"body", "div", "h1">>
    /\ <<data[2].parent, data[3].parent, data[4].parent>> = <<1, 2, 3>>
    /\ StartTagWritten(1) /\ CloseTagWritten(1)
    /\ ~StartTagWritten(2) /\ ~CloseTagWritten(2)
    /\ StartTagWritten(3) /\ CloseTagWritten(3)
    /\ TextWritten(4)
    /\ buf[Len(buf)].n = 1 /\ buf[Len(buf) - 1].n = 3

\* ------------------------------------------------- the package as a library
\* the documents a client renders: <body> with at most one node inside, and
\* a lone <h1>
FlagDocs ==
    {InBody(d) : d \in Forests(1, BodyKinds)} \cup {<<At(El("h1"), 0)>>}

InitLibrary ==
    /\ renderCanonicalMode = FALSE
    /\ renderStyle = TRUE
    /\ renderLinks = TRUE
    /\ encounteredBodyElement = FALSE
    /\ encounteredFirstH1Element = FALSE
    /\ pc = "library"
    /\ data \in FlagDocs
    /\ buf = <<>>
    /\ prevBuf = <<>>
    /\ retErr = ""
    /\ renderErr = ""
    /\ vis = <<>>
    /\ nRenders = 0
    /\ calls = <<>>

\* isElementRenderable called on its own, without a log of the calls
Probe(tag) ==
    /\ pc = "library"
    /\ LET res == isElementRenderable(tag, cfg, encounteredBodyElement,
                                      encounteredFirstH1Element)
       IN  /\ encounteredBodyElement' = res.eb
           /\ encounteredFirstH1Element' = res.eh
    /\ UNCHANGED <<flags, pc, data, lastRender, calls>>

NextLibrary ==
    \/ \E flag \in BOOLEAN : SetPostH1Render(flag)
    \/ \E flag \in BOOLEAN : SetStyleRender(flag)
    \/ \E flag \in BOOLEAN : SetLinksRender(flag)
    \/ \E tag \in CallTags : Probe(tag)
    \/ CleanHTML

SpecLibrary == InitLibrary /\ [][NextLibrary]_vars

\* C16: over any sequence of isElementRenderable calls, renders and Set*
\* calls, a traversal flag that is true is never set back to false, and
\* neither flag changes in a step taken while canonical mode is disabled.
C16_FlagsMonotonic ==
    [][/\ encounteredBodyElement => encounteredBodyElement'
       /\ encounteredFirstH1Element => encounteredFirstH1Element'
       /\ ~renderCanonicalMode =>
            /\ encounteredBodyElement' = encounteredBodyElement
            /\ encounteredFirstH1Element' = encounteredFirstH1Element]_vars

\* <body><div></div></body> rendered in canonical mode (div suppressed,
\* body flag set) and then again with canonical mode disabled (div written):
\* the flag is still set and the h1 flag still clear
C16_Witness ==
    /\ ~renderCanonicalMode
    /\ encounteredBodyElement /\ ~encounteredFirstH1Element
    /\ nRenders = 2
    /\ data = InBody(<<At(El("div"), 0)>>)
    /\ StartTagWritten(2)
    /\ \A i \in 1..Len(prevBuf) : prevBuf[i].n # 2
    /\ prevBuf # <<>>

\* C17: a call of isElementRenderable on a tag that was already called on
\* leaves both traversal flags as it found them (so the re-check of the
\* parent that render makes for a text child changes nothing), and when it
\* follows the earlier call directly it also returns the same result and
\* ends in the state the earlier call ended in.
C17_RepeatIdempotent ==
    \A i, j \in 1..Len(calls) :
        (i < j /\ calls[i].tag = calls[j].tag) =>
            /\ calls[j].eb = calls[j].eb0
            /\ calls[j].eh = calls[j].eh0
            /\ (j = i + 1) =>
                  /\ calls[j].r = calls[i].r
                  /\ calls[j].eb = calls[i].eb
                  /\ calls[j].eh = calls[i].eh

\* canonical mode: body, then h1 twice in a row (the first h1 call sets
\* the h1 flag)
C17_Witness ==
    /\ renderCanonicalMode
    /\ Len(calls) = 3
    /\ calls[1].tag = "body"
    /\ calls[2].tag = "h1" /\ ~calls[2].eh0 /\ calls[2].eh
    /\ calls[3].tag = "h1" /\ calls[3].r
====
